---- MODULE Spec2Model ----
(***************************************************************************)
(* HomeRecoEngine: search, insert, delete and detail of HouseRecoService   *)
(* (src/api/db/services/house_reco_service.py), its location and hybrid    *)
(* searches, the Vectorizer (src/api/utils/vectorization_utils.py), the    *)
(* POST /search endpoint (src/api/apps/house_reco_app.py),                 *)
(* update_house_data (src/api/db/services/data_import_service.py) and the  *)
(* two process-wide singletons (src/core/utils/milvus_config.py).          *)
(*                                                                         *)
(* Units.  Coordinates are integers in 1e-5 degree, distances are integers *)
(* in millimetres, distance_km (round(distance, 2)) is an integer in       *)
(* 0.01 km, radius_km is an integer in metres, similarity scores are       *)
(* integers (cosine or BM25 score times 100).  An optional value (a dict   *)
(* key that may be missing, a Python None) is a sequence of length <= 1.   *)
(***************************************************************************)
EXTENDS Integers, Sequences, FiniteSets, TLC

VARIABLES
    store,      \* rows of the Milvus collection, in storage (insertion) order
    pc,         \* "idle": no call in flight; "returned": search_houses returned;
                \* "inserted", "deleted", "got": insert_house_data, delete_house,
                \* get_house_by_id returned; "answered": POST /search answered;
                \* "located": search_houses_by_location returned; "hybrid":
                \* HouseRecoService.hybrid_search returned; "updated":
                \* update_house_data returned
    req,        \* search_params of the last search_houses call
    limit,      \* its limit
    offset,     \* its offset
    fault,      \* what failed during the call
    result,     \* the list search_houses returned
    calls,      \* the storage-engine and vectorizer calls it made, in order
    embedding,  \* what the Vectorizer returned during the call, if it was called
    payload,    \* the house_data of the last insert_house_data call
    target,     \* the house_id of the last delete_house / get_house_by_id call
    ok,         \* the boolean insert_house_data / delete_house returned
    detail,     \* what get_house_by_id returned
    deleted,    \* history: the ids delete_house reported deleted while they were
                \* stored, and that were not inserted since
    before,     \* history: the rows of the collection when delete_house was called
    extra       \* what else is recorded of the last call: its other arguments
                \* (sort_by_distance, semantic_weight), the last step of
                \* search_houses and the candidates that step was given

\* The module-level singletons and the threads that ask for them.
VARIABLES
    client,     \* default_milvus_config._client: None or the instance assigned
    utils,      \* the global _vectorization_utils: None or the instance assigned
    made,       \* history: how many MilvusClient / VectorizationUtils were constructed
    tpc,        \* the position of each thread
    seen,       \* per thread: the last `is None` test was true
    held        \* per thread: the instances the two getters returned to it

mvars == <<store, pc, req, limit, offset, fault, result, calls,
           embedding, payload, target, ok, detail, deleted, before, extra>>

svars == <<client, utils, made, tpc, seen, held>>

vars == <<mvars, svars>>

\* ---------------------------------------------------------------- bounds
MaxStore == 2
MaxLimit == 2
MaxOffset == 1
MaxThreads == 2

\* ------------------------------------------------------------- optionals
None == <<>>
Some(v) == <<v>>
IsNone(o) == o = <<>>
Val(o) == o[1]

Min2(a, b) == IF a <= b THEN a ELSE b

\* The elements of s at Python slice positions [from:to] (0-based, to excluded).
Slice(s, from, to) ==
    LET hi == Min2(to, Len(s))
    IN  IF from >= hi THEN <<>> ELSE SubSeq(s, from + 1, hi)

\* list.sort(key=...): stable, ascending by key.  keys[i] is the key of s[i].
SortAscending(s, keys) ==
    LET n == Len(s)
        Rank(i) == 1 + Cardinality({j \in 1..n :
                        keys[j] < keys[i] \/ (keys[j] = keys[i] /\ j < i)})
    IN  [p \in 1..n |-> s[CHOOSE i \in 1..n : Rank(i) = p]]

\* list.sort(key=..., reverse=True): descending by key, equal keys keep their order.
SortDescending(s, keys) ==
    LET n == Len(s)
        Rank(i) == 1 + Cardinality({j \in 1..n :
                        keys[j] > keys[i] \/ (keys[j] = keys[i] /\ j < i)})
    IN  [p \in 1..n |-> s[CHOOSE i \in 1..n : Rank(i) = p]]

\* The subsequence of s whose elements satisfy Keep.
RECURSIVE SelectIdx(_, _, _)
SelectIdx(s, keep, i) ==
    IF i > Len(s) THEN <<>>
    ELSE (IF i \in keep THEN <<s[i]>> ELSE <<>>) \o SelectIdx(s, keep, i + 1)

\* ------------------------------------------------------------ the listings
\* The listings a caller inserts (the fields the model reads).
\* dense / sparse: the cosine and the BM25 score the storage engine reports for
\* the row against the query text "q"; they are the engine's, and the model
\* lets them differ from row to row so that a ranking is observable.
\* The listing D has an id whose text is itself a quoted literal, and lies due
\* north of the centre of the circle of the model, 4.998 km away.
Catalogue ==
    { [id |-> "A", category |-> 1, name |-> "N1", semantic_str |-> "near subway",
       region |-> "X", address |-> "Road 1", preferences_tags |-> "subway,school", longitude |-> 11630000, latitude |-> 3990000,
       min_area |-> 80,  max_area |-> 120,
       min_unit_price |-> 30, max_unit_price |-> 50,
       min_total_price |-> 200, max_total_price |-> 400,
       dense |-> 90, sparse |-> 10],
      [id |-> "B", category |-> 2, name |-> "N2", semantic_str |-> "garden view",
       region |-> "X", address |-> "Road 2", preferences_tags |-> "garden", longitude |-> 11633000, latitude |-> 3993000,
       min_area |-> 60,  max_area |-> 90,
       min_unit_price |-> 60, max_unit_price |-> 60,
       min_total_price |-> 500, max_total_price |-> 900,
       dense |-> 20, sparse |-> 85],
      [id |-> "C", category |-> 1, name |-> "N2", semantic_str |-> "",
       region |-> "Y", address |-> "Lane 3", preferences_tags |-> "", longitude |-> 11636000, latitude |-> 3994800,
       min_area |-> 100, max_area |-> 200,
       min_unit_price |-> 40, max_unit_price |-> 90,
       min_total_price |-> 300, max_total_price |-> 300,
       dense |-> 80, sparse |-> 80],
      [id |-> "\"A\"", category |-> 3, name |-> "N1", semantic_str |-> "school district",
       region |-> "Y", address |-> "Road 1", preferences_tags |-> "school", longitude |-> 11630500, latitude |-> 3994995,
       min_area |-> 70, max_area |-> 75,
       min_unit_price |-> 20, max_unit_price |-> 25,
       min_total_price |-> 100, max_total_price |-> 150,
       dense |-> 55, sparse |-> 35] }


\* ------------------------------------------------------ search parameters
NoRange == [min |-> None, max |-> None]

NoLocation ==
    [center_longitude |-> None, center_latitude |-> None, radius_km |-> None,
     min_longitude |-> None, max_longitude |-> None,
     min_latitude |-> None, max_latitude |-> None]

\* hybrid_weights: the keys a caller may give.  `vector` and `bm25` are the
\* keys of the request schema; `dense` and `sparse` are other keys of the dict.
NoWeights == [vector |-> None, bm25 |-> None, dense |-> None, sparse |-> None]

\* A category or name value: a list (items) or a scalar (items is the one
\* value).  numeric = FALSE: int() of the value, or of an element, raises
\* ValueError (e.g. the category "villa"); then items does not matter.
ListOf(xs) == [kind |-> "list", items |-> xs, numeric |-> TRUE]
Scalar(x) == [kind |-> "scalar", items |-> <<x>>, numeric |-> TRUE]
NonNumeric == [kind |-> "scalar", items |-> <<>>, numeric |-> FALSE]

NoParams ==
    [retrieval_type |-> None, user_query_text |-> None, semantic_str |-> None,
     confidence |-> None, hybrid_weights |-> NoWeights,
     category |-> None, name |-> None, region |-> None, address |-> None,
     preferences_tags |-> None,
     area_range |-> NoRange, unit_price_range |-> NoRange,
     total_price_range |-> NoRange, location |-> NoLocation,
     location_circle |-> NoLocation]

\* ---------------------------------------------------------- Distance Engine
\* math.cos(math.radians(center_lat)) times 10^4, tabulated for the centre
\* latitudes the model uses.
CosE4(lat) ==
    CASE lat = 3990500 -> 7671
      [] OTHER -> 7660

\* calculate_distance_km (haversine, R = 6371.0), in millimetres, tabulated from
\* the function for the pairs (centre, listing position) the model uses.
HaversineMm ==
    ( <<3990500, 11630500, 3990000, 11630000>> :> 700726 ) @@
    ( <<3990500, 11630500, 3993000, 11633000>> :> 3503348 ) @@
    ( <<3990500, 11630500, 3994800, 11636000>> :> 6697557 ) @@
    ( <<3990500, 11630500, 3994995, 11630500>> :> 4998212 )

calculate_distance_km(lat1, lng1, lat2, lng2) ==
    IF lat1 = lat2 /\ lng1 = lng2 THEN 0
    ELSE HaversineMm[<<lat1, lng1, lat2, lng2>>]

\* round(distance, 2): millimetres to units of 0.01 km.
Round2(mm) == (mm + 5000) \div 10000

\* ---------------------------------------------------------- Filter Compiler
Cond(f, o, v) == [field |-> f, op |-> o, value |-> v]

\* The range block written as a containment test on a single-valued attribute.
Mut_RangeContainment(r, minField, maxField) ==
    (IF ~IsNone(r.min) THEN <<Cond(minField, ">=", Val(r.min))>> ELSE <<>>) \o
    (IF ~IsNone(r.max) THEN <<Cond(maxField, "<=", Val(r.max))>> ELSE <<>>)

\* The range block with strict comparisons.
Mut_RangeStrict(r, minField, maxField) ==
    (IF ~IsNone(r.min) THEN <<Cond(maxField, ">", Val(r.min))>> ELSE <<>>) \o
    (IF ~IsNone(r.max) THEN <<Cond(minField, "<", Val(r.max))>> ELSE <<>>)

\* One range block of _build_filter_expression: `<maxField> >= min` if min is
\* given, `<minField> <= max` if max is given.
RangeConditions(r, minField, maxField) ==
    (IF ~IsNone(r.min) THEN <<Cond(maxField, ">=", Val(r.min))>> ELSE <<>>) \o
    (IF ~IsNone(r.max) THEN <<Cond(minField, "<=", Val(r.max))>> ELSE <<>>)

build_rectangle_filter(location) ==
    (IF ~IsNone(location.min_longitude)
        THEN <<Cond("longitude", ">=", Val(location.min_longitude))>> ELSE <<>>) \o
    (IF ~IsNone(location.max_longitude)
        THEN <<Cond("longitude", "<=", Val(location.max_longitude))>> ELSE <<>>) \o
    (IF ~IsNone(location.min_latitude)
        THEN <<Cond("latitude", ">=", Val(location.min_latitude))>> ELSE <<>>) \o
    (IF ~IsNone(location.max_latitude)
        THEN <<Cond("latitude", "<=", Val(location.max_latitude))>> ELSE <<>>)

LatDegreeM == 111320

\* The bounding box of the circle.  The deltas are rounded down to 1e-5 degree;
\* against coordinates that are multiples of 1e-5 degree the four comparisons
\* decide as the float comparisons of the code do.
build_circle_filter(location_circle) ==
    LET center_lng == Val(location_circle.center_longitude)
        center_lat == Val(location_circle.center_latitude)
        radius_m == Val(location_circle.radius_km)
        lng_degree_m == (LatDegreeM * CosE4(center_lat)) \div 10000
        lat_delta == (radius_m * 100000) \div LatDegreeM
        lng_delta == (radius_m * 100000) \div lng_degree_m
    IN  << Cond("latitude", ">=", center_lat - lat_delta),
           Cond("latitude", "<=", center_lat + lat_delta),
           Cond("longitude", ">=", center_lng - lng_delta),
           Cond("longitude", "<=", center_lng + lng_delta) >>

\* The test of _build_location_filter for its circle branch: the three keys of
\* a circle are in the dict.  (In a location, None is a key that is missing.)
CircleKeysPresent(location) ==
    /\ ~IsNone(location.center_longitude)
    /\ ~IsNone(location.center_latitude)
    /\ ~IsNone(location.radius_km)

\* The test that never takes the location for a circle.
Mut_IsCircleSearchNever(location) == FALSE

\* _is_circle_search, the test search_houses makes before the post-processing.
is_circle_search(location) ==
    /\ ~IsNone(location.center_longitude)
    /\ ~IsNone(location.center_latitude)
    /\ ~IsNone(location.radius_km)

build_location_filter(location) ==
    IF CircleKeysPresent(location) THEN build_circle_filter(location)
    ELSE IF \/ ~IsNone(location.min_longitude) \/ ~IsNone(location.max_longitude)
            \/ ~IsNone(location.min_latitude) \/ ~IsNone(location.max_latitude)
         THEN build_rectangle_filter(location)
         ELSE <<>>

\* The category block: `category in [..]` for a non-empty list, nothing for an
\* empty one, `category == n` for a scalar.
CategoryConditions(category) ==
    IF IsNone(category) THEN <<>>
    ELSE IF Val(category).kind = "list" /\ Val(category).numeric
         THEN (IF Val(category).items # <<>>
               THEN <<Cond("category", "in", Val(category).items)>> ELSE <<>>)
         ELSE IF ~Val(category).numeric THEN <<>>   \* int() raised: see FilterRaises
         ELSE <<Cond("category", "==", Val(category).items[1])>>

\* The name block that compiles an empty list to `name in []`.
Mut_NameEmptyListMatchesNothing(name) ==
    IF IsNone(name) THEN <<>>
    ELSE IF Val(name).kind = "list"
         THEN <<Cond("name", "in", Val(name).items)>>
         ELSE (IF Val(name).items[1] # ""
               THEN <<Cond("name", "==", Val(name).items[1])>> ELSE <<>>)

\* The name block: `name in [..]` for a non-empty list, `name == ".."` for a
\* non-empty string, nothing otherwise.
NameConditions(name) ==
    IF IsNone(name) THEN <<>>
    ELSE IF Val(name).kind = "list"
         THEN (IF Val(name).items # <<>>
               THEN <<Cond("name", "in", Val(name).items)>> ELSE <<>>)
         ELSE (IF Val(name).items[1] # ""
               THEN <<Cond("name", "==", Val(name).items[1])>> ELSE <<>>)

\* _build_filter_expression has no try: `int(v)` of a non-numeric category
\* raises ValueError out of it.
FilterRaises(search_params) ==
    ~IsNone(search_params.category) /\ ~Val(search_params.category).numeric

\* `search_params.get('location')`: a dict with at least one key.
HasLocation(p) == p.location # NoLocation

\* The compiled predicate: the conjunction of the conditions of the sequence.
\* The empty sequence is the None the code returns for "no condition".
build_filter_expression(search_params) ==
    CategoryConditions(search_params.category) \o
    NameConditions(search_params.name) \o
    (IF ~IsNone(search_params.region) /\ Val(search_params.region) # ""
        THEN <<Cond("region", "==", Val(search_params.region))>> ELSE <<>>) \o
    (IF ~IsNone(search_params.preferences_tags) /\ Val(search_params.preferences_tags) # ""
        THEN <<Cond("preferences_tags", "like", Val(search_params.preferences_tags))>>
        ELSE <<>>) \o
    RangeConditions(search_params.area_range, "min_area", "max_area") \o
    RangeConditions(search_params.unit_price_range,
                    "min_unit_price", "max_unit_price") \o
    RangeConditions(search_params.total_price_range,
                    "min_total_price", "max_total_price") \o
    (IF HasLocation(search_params)
        THEN build_location_filter(search_params.location) ELSE <<>>)


\* ------------------------------------------------------------ serialization
VectorFields == {"semantic_vector", "sparse_vector"}

\* _get_safe_output_fields (the fields of the model among them).
get_safe_output_fields ==
    {"id", "category", "name", "region", "address", "preferences_tags",
     "min_area", "max_area",
     "min_unit_price", "max_unit_price", "min_total_price", "max_total_price",
     "longitude", "latitude", "semantic_str"}

\* The serialization that copies every key.
Mut_SerializeKeepsVectors(house_data) == house_data

\* _serialize_house_data: every key but the two vector fields.  (_safe_serialize,
\* its fallback, skips the same two keys.)
serialize_house_data(house_data) ==
    [k \in (DOMAIN house_data) \ VectorFields |-> house_data[k]]

\* ------------------------------------------------------- the storage engine
\* What the Milvus client does with the arguments the service passes to it.

\* `part` occurs in `text`, for the strings of the model.
Contains(text, part) ==
    \/ part = text
    \/ part = "Road" /\ text \in {"Road 1", "Road 2"}
    \/ part = "school" /\ text = "subway,school"

EvalCond(row, c) ==
    CASE c.op = "==" -> row[c.field] = c.value
      [] c.op = ">=" -> row[c.field] >= c.value
      [] c.op = "<=" -> row[c.field] <= c.value
      [] c.op = ">" -> row[c.field] > c.value
      [] c.op = "<" -> row[c.field] < c.value
      [] c.op = "in" -> \E k \in 1..Len(c.value) : row[c.field] = c.value[k]
      [] c.op = "like" -> Contains(row[c.field], c.value)   \* like "%value%"

\* The predicate whose conditions are joined with OR.
Mut_EvalExprAny(row, expr) ==
    expr = <<>> \/ \E i \in 1..Len(expr) : EvalCond(row, expr[i])

\* An empty expression (filter=None, expr="") constrains nothing.
EvalExpr(row, expr) == \A i \in 1..Len(expr) : EvalCond(row, expr[i])

MatchIdx(rows, expr) == {i \in 1..Len(rows) : EvalExpr(rows[i], expr)}

\* The k best indices of S by score, best first; equal scores in storage order.
TopK(S, score, k) ==
    LET Rank(i) == 1 + Cardinality({j \in S :
                        score[j] > score[i] \/ (score[j] = score[i] /\ j < i)})
        n == Min2(k, Cardinality(S))
    IN  [p \in 1..n |-> CHOOSE i \in S : Rank(i) = p]

Range(s) == {s[i] : i \in 1..Len(s)}

\* The engine's index scores of a row are not fields of the row.
ScoreFields == {"dense", "sparse"}

\* The entity of a row for output_fields (a set of field names, or "*").
Entity(row, output_fields) ==
    IF output_fields = {"*"}
    THEN [k \in (DOMAIN row) \ ScoreFields |-> row[k]]
    ELSE [k \in output_fields \cap (DOMAIN row) |-> row[k]]

Hits(rows, idx, score, output_fields) ==
    [p \in 1..Len(idx) |->
        [entity |-> Entity(rows[idx[p]], output_fields), distance |-> score[idx[p]]]]

FieldScore(rows, anns_field) ==
    [i \in 1..Len(rows) |->
        IF anns_field = "semantic_vector" THEN rows[i].dense ELSE rows[i].sparse]

\* client.search's candidates: the rows the filter matches and, when the search
\* params carry a radius (confidence), whose similarity exceeds it.
SearchIdx(rows, anns_field, expr, lim, radius) ==
    LET score == FieldScore(rows, anns_field)
        cand == {i \in MatchIdx(rows, expr) : IsNone(radius) \/ score[i] > Val(radius)}
    IN  TopK(cand, score, lim)

\* client.search(data=[q], filter, limit, search_params, anns_field)[0]
MilvusSearch(rows, anns_field, expr, lim, radius) ==
    Hits(rows, SearchIdx(rows, anns_field, expr, lim, radius),
         FieldScore(rows, anns_field), get_safe_output_fields)

\* client.hybrid_search(reqs=[vector_req, bm25_req], ranker, limit)[0]: each
\* request yields its own best req_limit rows; the weighted ranker scores a
\* row by the weighted sum of the scores of the requests that returned it.
MilvusHybridSearch(rows, expr, req_limit, radius, dw, sw, lim) ==
    LET dense == Range(SearchIdx(rows, "semantic_vector", expr, req_limit, radius))
        sparse == Range(SearchIdx(rows, "sparse_vector", expr, req_limit, None))
        fused == [i \in 1..Len(rows) |->
                    (IF i \in dense THEN dw * rows[i].dense ELSE 0) +
                    (IF i \in sparse THEN sw * rows[i].sparse ELSE 0)]
    IN  Hits(rows, TopK(dense \cup sparse, fused, lim), fused, get_safe_output_fields)

\* client.query(filter, output_fields, limit, offset): the matching rows in
\* storage order.
MilvusQuery(rows, expr, output_fields, lim, off) ==
    LET all == SelectIdx(rows, MatchIdx(rows, expr), 1)
        page == Slice(all, off, off + lim)
    IN  [i \in 1..Len(page) |-> Entity(page[i], output_fields)]


\* ------------------------------------------------------ Geo Post-Processor
House(e, score, dist) == [entity |-> e, similarity_score |-> score, distance_km |-> dist]

\* The post-processor without the `distance <= radius_km` test.
Mut_CircleNoRadiusTest(results, location, lim) ==
    LET center_lng == Val(location.center_longitude)
        center_lat == Val(location.center_latitude)
        distance == [i \in 1..Len(results) |->
                        calculate_distance_km(center_lat, center_lng,
                            results[i].entity.latitude, results[i].entity.longitude)]
        marked == [i \in 1..Len(results) |->
                        [results[i] EXCEPT !.distance_km = Some(Round2(distance[i]))]]
        keys == [i \in 1..Len(marked) |-> Val(marked[i].distance_km)]
    IN  Slice(SortAscending(marked, keys), 0, lim)

\* The post-processor without the sort by distance_km.
Mut_CircleNoSort(results, location, lim) ==
    LET center_lng == Val(location.center_longitude)
        center_lat == Val(location.center_latitude)
        radius_mm == Val(location.radius_km) * 1000
        distance == [i \in 1..Len(results) |->
                        calculate_distance_km(center_lat, center_lng,
                            results[i].entity.latitude, results[i].entity.longitude)]
        marked == [i \in 1..Len(results) |->
                        [results[i] EXCEPT !.distance_km = Some(Round2(distance[i]))]]
        filtered_results ==
            SelectIdx(marked, {i \in 1..Len(results) : distance[i] <= radius_mm}, 1)
    IN  Slice(filtered_results, 0, lim)

\* _apply_circle_distance_filter.  Its except branch (return results[:limit])
\* needs a non-numeric coordinate or radius, which the request and the stored
\* rows of the model never carry.
apply_circle_distance_filter(results, location, lim) ==
    LET center_lng == Val(location.center_longitude)
        center_lat == Val(location.center_latitude)
        radius_mm == Val(location.radius_km) * 1000
        distance == [i \in 1..Len(results) |->
                        calculate_distance_km(center_lat, center_lng,
                            results[i].entity.latitude, results[i].entity.longitude)]
        marked == [i \in 1..Len(results) |->
                        [results[i] EXCEPT !.distance_km = Some(Round2(distance[i]))]]
        filtered_results ==
            SelectIdx(marked, {i \in 1..Len(results) : distance[i] <= radius_mm}, 1)
        keys == [i \in 1..Len(filtered_results) |-> Val(filtered_results[i].distance_km)]
    IN  Slice(SortAscending(filtered_results, keys), 0, lim)

\* --------------------------------------------------------------- Vectorizer
VECTOR_DIM == 1024

\* `[0.0] * 1024`
ZeroVector == [dim |-> VECTOR_DIM, kind |-> "zero", text |-> <<>>]

\* embedding_model.encode_queries(text)[0].tolist(): the embedding of the text
\* (a sequence of text parts) by BAAI/bge-large-zh-v1.5, 1024 floats.
encode_queries(text) == [dim |-> VECTOR_DIM, kind |-> "embedding", text |-> text]

\* `not text.strip()`
Blank(text) == text \in {"", " "}

Vectorized(v) == [raised |-> FALSE, vector |-> v]

\* create_query_vector without its try / except.
Mut_QueryVectorNoExcept(embedding_model, query_text, encode_throws) ==
    IF ~embedding_model THEN Vectorized(ZeroVector)
    ELSE IF Blank(query_text) THEN Vectorized(ZeroVector)
    ELSE IF encode_throws THEN [raised |-> TRUE, vector |-> ZeroVector]
    ELSE Vectorized(encode_queries(<<query_text>>))

\* create_query_vector.  embedding_model: the model was initialised (it is None
\* otherwise); encode_throws: encode_queries raises.
create_query_vector(embedding_model, query_text, encode_throws) ==
    IF ~embedding_model THEN Vectorized(ZeroVector)
    ELSE IF Blank(query_text) THEN Vectorized(ZeroVector)
    ELSE IF encode_throws THEN Vectorized(ZeroVector)
    ELSE Vectorized(encode_queries(<<query_text>>))

\* The keys _combine_semantic_fields reads, in the order it joins them.
LegacyFields ==
    <<"xqmc", "qy", "mj", "xqtd", "xqmd", "xq", "xqph", "zb", "fyb", "fyhx",
      "user_query_text">>

\* _combine_semantic_fields: the non-empty values of the keys above that
\* house_data has, as the parts of the joined text.
combine_semantic_fields(house_data) ==
    LET n == Len(LegacyFields)
        value == [i \in 1..n |-> IF LegacyFields[i] \in DOMAIN house_data
                                 THEN house_data[LegacyFields[i]] ELSE ""]
    IN  SelectIdx(value, {i \in 1..n : value[i] # ""}, 1)

\* create_semantic_vector
create_semantic_vector(embedding_model, house_data, encode_throws) ==
    IF ~embedding_model THEN Vectorized(ZeroVector)
    ELSE LET semantic_text == combine_semantic_fields(house_data)
         IN  IF semantic_text = <<>> THEN Vectorized(ZeroVector)
             ELSE IF encode_throws THEN Vectorized(ZeroVector)
             ELSE Vectorized(encode_queries(semantic_text))

\* ------------------------------------------------------- Retrieval Executor
Call(o, f, e, l, k) == [op |-> o, anns_field |-> f, filter |-> e, limit |-> l, offset |-> k]

\* `search_params.get('user_query_text') or search_params.get('semantic_str')`
QueryText(p) ==
    IF ~IsNone(p.user_query_text) /\ Val(p.user_query_text) # ""
    THEN p.user_query_text ELSE p.semantic_str

HasQueryText(p) == ~IsNone(QueryText(p))

\* str.lower() of the retrieval types the requests of the model carry.
Lower(s) ==
    CASE s = "BM25" -> "bm25"
      [] OTHER -> s

\* The retrieval type read without .lower().
Mut_RetrievalTypeNoLower(p) ==
    IF IsNone(p.retrieval_type) \/ Val(p.retrieval_type) = "" THEN "vector"
    ELSE Val(p.retrieval_type)

\* `(search_params.get('retrieval_type') or 'vector').lower()`
RetrievalType(p) ==
    IF IsNone(p.retrieval_type) \/ Val(p.retrieval_type) = "" THEN "vector"
    ELSE Lower(Val(p.retrieval_type))

\* The default weight 0.5; weights are in tenths.
DefaultWeight == 5

\* The dense weight that ignores the caller's value.
Mut_DenseWeightDefault(hybrid_weights) == DefaultWeight

\* `dense_weight = hybrid_weights.get('vector')`, 0.5 if that is None
DenseWeight(hybrid_weights) ==
    IF IsNone(hybrid_weights.vector) THEN DefaultWeight ELSE Val(hybrid_weights.vector)

\* `sparse_weight = hybrid_weights.get('bm25')`, 0.5 if that is None
SparseWeight(hybrid_weights) ==
    IF IsNone(hybrid_weights.bm25) THEN DefaultWeight ELSE Val(hybrid_weights.bm25)

\* The hybrid_search call with the weights of its WeightedRanker.
HybridCall(e, l, dw, sw) ==
    [op |-> "hybrid_search", anns_field |-> "", filter |-> e, limit |-> l,
     offset |-> 0, weights |-> <<dw, sw>>]

\* The branches of the mode dispatch of search_houses, for the compiled
\* filter, the query vector, the weights, the engine calls and the dense hits.
DispatchWith(rows, p, fetch, flt, filter_expr, vectorized, dw, sw, vec, dense, denseHits) ==
    IF RetrievalType(p) \in {"vector", "hybrid"} /\ HasQueryText(p) /\ vectorized.raised
    THEN [raised |-> TRUE, scored |-> TRUE, calls |-> <<vec>>, hits |-> <<>>,
          vector |-> None]
    ELSE IF RetrievalType(p) = "vector" /\ HasQueryText(p) THEN
        [raised |-> flt = "engine", scored |-> TRUE, calls |-> <<vec, dense>>,
         hits |-> denseHits, vector |-> Some(vectorized.vector)]
    ELSE IF RetrievalType(p) = "bm25" /\ HasQueryText(p) THEN
        [raised |-> flt = "engine", scored |-> TRUE,
         calls |-> <<Call("search", "sparse_vector", filter_expr, fetch, 0)>>,
         hits |-> MilvusSearch(rows, "sparse_vector", filter_expr, fetch, None),
         vector |-> None]
    ELSE IF RetrievalType(p) = "hybrid" /\ HasQueryText(p) THEN
        IF flt = "ranker" THEN
            \* WeightedRanker(...) is built before the inner try
            [raised |-> TRUE, scored |-> TRUE, calls |-> <<vec>>, hits |-> <<>>,
             vector |-> Some(vectorized.vector)]
        ELSE IF flt \in {"hybrid_call", "engine"} THEN
            \* client.hybrid_search raised: the except branch searches by vector
            [raised |-> flt = "engine", scored |-> TRUE,
             calls |-> <<vec, HybridCall(filter_expr, fetch, dw, sw), dense>>,
             hits |-> denseHits, vector |-> Some(vectorized.vector)]
        ELSE
            [raised |-> FALSE, scored |-> TRUE,
             calls |-> <<vec, HybridCall(filter_expr, fetch, dw, sw)>>,
             hits |-> MilvusHybridSearch(rows, filter_expr, fetch, p.confidence,
                                          dw, sw, fetch),
             vector |-> Some(vectorized.vector)]
    ELSE
        [raised |-> FALSE, scored |-> FALSE, calls |-> <<>>, hits |-> <<>>,
         vector |-> None]

\* The mode dispatch with `limit + offset` candidates fetched.
Dispatch(rows, p, fetch, flt, filter_expr, vectorized, dw, sw) ==
    DispatchWith(rows, p, fetch, flt, filter_expr, vectorized, dw, sw,
                 Call("create_query_vector", "", <<>>, 0, 0),
                 Call("search", "semantic_vector", filter_expr, fetch, 0),
                 MilvusSearch(rows, "semantic_vector", filter_expr, fetch, p.confidence))

\* The mode dispatch of search_houses, up to `search_results`:
\*   raised: an exception reached the outer except of search_houses
\*   scored: search_results is a list of hits (not None)
\*   vector: what create_query_vector returned, if it was called
\* flt = "no_model": the embedding model failed to initialise; "encode":
\* encode_queries raises.  The engine is then searched with the zero vector; the
\* model lets it report the scores it reports for the embedded query.
SearchStage(rows, p, lim, off, flt) ==
    Dispatch(rows, p, lim + off, flt, build_filter_expression(p),
             create_query_vector(flt # "no_model", Val(QueryText(p)), flt = "encode"),
             DenseWeight(p.hybrid_weights), SparseWeight(p.hybrid_weights))

\* The over-fetched hits returned without the cut.
Mut_NoSlice(results, lim, off) == results

\* `results = results[offset:offset + limit]`
ApplyOffsetLimit(results, lim, off) == Slice(results, off, off + lim)

\* The score sort without reverse=True.
Mut_SortByScoreAscending(results) ==
    SortAscending(results, [i \in 1..Len(results) |-> Val(results[i].similarity_score)])

\* `results.sort(key=lambda x: x.get('similarity_score', 0.0), reverse=True)`
SortByScore(results) ==
    SortDescending(results, [i \in 1..Len(results) |-> Val(results[i].similarity_score)])

\* The pure filter branch: client.query when there is a filter, [] otherwise.
PureFilter(rows, filter_expr, lim, off) ==
    IF filter_expr # <<>>
    THEN LET query_results == MilvusQuery(rows, filter_expr, get_safe_output_fields,
                                          lim, off)
         IN  [i \in 1..Len(query_results) |->
                House(serialize_house_data(query_results[i]), None, None)]
    ELSE <<>>

\* `results`: the hits of the mode dispatch, serialized and cut to the page,
\* or the rows of the pure filter branch.
Retrieved(rows, lim, off, filter_expr, stage) ==
    IF stage.scored
    THEN ApplyOffsetLimit([i \in 1..Len(stage.hits) |->
                              House(serialize_house_data(stage.hits[i].entity),
                                    Some(stage.hits[i].distance), None)], lim, off)
    ELSE PureFilter(rows, filter_expr, lim, off)

\* The last step of search_houses on `results`, and what it returns:
\* _apply_circle_distance_filter for a circle, else the sort by
\* similarity_score if the results are scored; [] if an exception was raised.
PostProcess(p, lim, off, flt, filter_expr, stage, results) ==
    LET queried == ~stage.scored /\ filter_expr # <<>>
        raised == stage.raised \/ (queried /\ flt = "engine")
        circle == HasLocation(p) /\ is_circle_search(p.location)
        scored == results # <<>> /\ ~IsNone(results[1].similarity_score)
    IN  [results |-> IF raised THEN <<>>
                     ELSE IF circle
                          THEN apply_circle_distance_filter(results, p.location, lim)
                          ELSE IF scored THEN SortByScore(results) ELSE results,
         calls |-> stage.calls \o
                   (IF queried THEN <<Call("query", "", filter_expr, lim, off)>> ELSE <<>>),
         raised |-> raised,
         vector |-> stage.vector,
         candidates |-> results,
         post |-> IF circle THEN "circle" ELSE IF scored THEN "score" ELSE "none"]

\* search_houses once the filter is compiled and the mode dispatch is done.
SearchWith(rows, p, lim, off, flt, filter_expr, stage) ==
    PostProcess(p, lim, off, flt, filter_expr, stage,
                Retrieved(rows, lim, off, filter_expr, stage))

\* search_houses: [results |-> the returned list, calls |-> the calls made,
\* raised |-> whether the outer except returned the [], vector |-> what the
\* Vectorizer returned, candidates |-> `results` before the last step,
\* post |-> the last step taken: "circle" (_apply_circle_distance_filter),
\* "score" (the sort by similarity_score) or "none"].
search_houses(rows, p, lim, off, flt) ==
    IF FilterRaises(p)
    THEN [results |-> <<>>, calls |-> <<>>, raised |-> TRUE, vector |-> None,
          candidates |-> <<>>, post |-> "none"]
    ELSE SearchWith(rows, p, lim, off, flt, build_filter_expression(p),
                    SearchStage(rows, p, lim, off, flt))

\* What the POST /search handler answers for the list search_houses returned
\* (no category loop): search_houses returns a list on every path, so the
\* handler's own except branch (success=False) is not taken.
HouseResponse(results) ==
    [success |-> TRUE, houses |-> results, total |-> Len(results)]

\* The search_params the POST /search handler builds from the request: every
\* field that is not None but category, and user_query_text only if it is
\* not empty.
EndpointParams(request) ==
    [request EXCEPT !.category = None,
                    !.user_query_text = IF @ = Some("") THEN None ELSE @]

\* `categories`: the elements of a list, the one value of a scalar, [] for None.
\* (The request schema admits only integers, so int() does not raise here.)
Categories(request) ==
    IF IsNone(request.category) THEN <<>> ELSE Val(request.category).items

\* The loop `for cat in categories`: one search_houses call per category with
\* the request's limit and offset, the results appended to all_results.
RECURSIVE SearchByCategory(_, _, _, _, _, _, _)
SearchByCategory(rows, params, categories, k, lim, off, flt) ==
    IF k > Len(categories) THEN <<>>
    ELSE search_houses(rows, [params EXCEPT !.category = Some(Scalar(categories[k]))],
                       lim, off, flt).results
         \o SearchByCategory(rows, params, categories, k + 1, lim, off, flt)

\* The POST /search handler: the `houses` list of its response.
search_endpoint(rows, request, lim, off, flt) ==
    IF Categories(request) = <<>>
    THEN search_houses(rows, EndpointParams(request), lim, off, flt).results
    ELSE SearchByCategory(rows, EndpointParams(request), Categories(request), 1,
                          lim, off, flt)

\* ------------------------------------------------- insert, delete, get by id
\* The keys _preprocess_house_data copies (the fields of the model among them).
ProcessedFields == get_safe_output_fields

\* _preprocess_house_data: a new dict with the known keys of house_data, plus
\* the semantic_vector made from that dict; None when the Vectorizer raises.
preprocess_house_data(house_data, embedding_model, encode_throws) ==
    LET processed_data == [k \in ProcessedFields |-> house_data[k]]
        vectorized == create_semantic_vector(embedding_model, processed_data,
                                             encode_throws)
    IN  IF vectorized.raised THEN None
        ELSE Some(processed_data @@ [semantic_vector |-> vectorized.vector])

\* The scores the engine reports for the listing with this id.
IndexScores(id) == CHOOSE c \in Catalogue : c.id = id

\* client.insert(data): the row is appended; the BM25 function of the schema
\* fills sparse_vector from semantic_str.
MilvusInsert(rows, data) ==
    Append(rows, data @@ [sparse_vector |-> [kind |-> "bm25", text |-> data.semantic_str],
                          dense |-> IndexScores(data.id).dense,
                          sparse |-> IndexScores(data.id).sparse])

\* insert_house_data(house_data) for one dict: [ok |-> the boolean returned,
\* rows |-> the collection afterwards, vector |-> what the Vectorizer returned].
insert_house_data(rows, house_data, flt) ==
    LET processed == preprocess_house_data(house_data, flt # "no_model", flt = "encode")
    IN  IF IsNone(processed) THEN [ok |-> FALSE, rows |-> rows, vector |-> None]
        ELSE IF flt = "engine"
             THEN [ok |-> FALSE, rows |-> rows,
                   vector |-> Some(Val(processed).semantic_vector)]
             ELSE [ok |-> TRUE, rows |-> MilvusInsert(rows, Val(processed)),
                   vector |-> Some(Val(processed).semantic_vector)]

\* The text of a double-quoted string literal is its content; no other id text
\* of the model is a string literal.
StringLiteral(text) ==
    CASE text = "\"A\"" -> Some("A")
      [] OTHER -> None

\* The filter f'id == {house_id}' as the engine reads it.  id is the VARCHAR
\* primary key: the right-hand side must be a string literal, and the engine
\* rejects the expression (raises) for a bare word or a number.
IdFilter(house_id) ==
    IF IsNone(StringLiteral(house_id))
    THEN [raises |-> TRUE, expr |-> <<>>]
    ELSE [raises |-> FALSE, expr |-> <<Cond("id", "==", Val(StringLiteral(house_id)))>>]

\* client.delete(filter): the rows the filter matches are removed.
MilvusDelete(rows, expr) ==
    SelectIdx(rows, (1..Len(rows)) \ MatchIdx(rows, expr), 1)

\* delete_house(house_id): True unless client.delete raised.
delete_house(rows, house_id, flt) ==
    IF IdFilter(house_id).raises \/ flt = "engine"
    THEN [ok |-> FALSE, rows |-> rows]
    ELSE [ok |-> TRUE, rows |-> MilvusDelete(rows, IdFilter(house_id).expr)]

\* get_house_by_id(house_id): the first match serialized, None if there is
\* none or if client.query raised.
get_house_by_id(rows, house_id, flt) ==
    IF IdFilter(house_id).raises \/ flt = "engine" THEN None
    ELSE LET results == MilvusQuery(rows, IdFilter(house_id).expr, {"*"}, 1, 0)
         IN  IF results # <<>> THEN Some(serialize_house_data(results[1])) ELSE None

\* DataImportService.update_house_data: delete_house(house_id), and if that
\* returned True, insert_house_data(updated_data) with updated_data['id'] =
\* house_id.  flt = "engine_delete": client.delete raises; "engine_insert":
\* client.insert raises.
update_house_data(rows, house_id, updated_data, flt) ==
    LET removed == delete_house(rows, house_id,
                                IF flt = "engine_delete" THEN "engine" ELSE "none")
        inserted == insert_house_data(removed.rows, [updated_data EXCEPT !.id = house_id],
                                      IF flt = "engine_insert" THEN "engine" ELSE "none")
    IN  IF ~removed.ok THEN [ok |-> FALSE, rows |-> rows]
        ELSE [ok |-> inserted.ok, rows |-> inserted.rows]

\* hybrid_search that hands semantic_weight to the weighted ranker.
Mut_HybridSearchUsesWeight(rows, semantic_query, filter_params, semantic_weight, lim, flt) ==
    search_houses(rows,
        [filter_params EXCEPT !.user_query_text = Some(semantic_query),
                              !.retrieval_type = Some("hybrid"),
                              !.hybrid_weights =
                                  [NoWeights EXCEPT !.vector = Some(semantic_weight),
                                                    !.bm25 = Some(10 - semantic_weight)]],
        lim, 0, flt)

\* HouseRecoService.hybrid_search: search_houses on a copy of filter_params
\* with user_query_text = semantic_query, the default offset, and
\* semantic_weight left unused.  (search_houses does not raise, so the except
\* branch is not taken.)  The value is the record search_houses gives.
hybrid_search(rows, semantic_query, filter_params, semantic_weight, lim, flt) ==
    search_houses(rows, [filter_params EXCEPT !.user_query_text = Some(semantic_query)],
                  lim, 0, flt)

\* `min(limit * 3, 100)`
InitialLimit(lim) == Min2(lim * 3, 100)

\* The rest of search_houses_by_location for the `results` of search_houses
\* and the distance of each: distance_km is set, the results farther than
\* radius_km are dropped, the rest sorted by distance when sort_by_distance
\* holds and cut to limit.
DistanceFiltered(results, distance, radius_km, lim, sort_by_distance) ==
    LET filtered_results ==
            SelectIdx([i \in 1..Len(results) |->
                          [results[i] EXCEPT !.distance_km = Some(Round2(distance[i]))]],
                      {i \in 1..Len(results) : distance[i] <= radius_km * 1000}, 1)
    IN  IF sort_by_distance
        THEN Slice(SortAscending(filtered_results,
                       [i \in 1..Len(filtered_results) |->
                           Val(filtered_results[i].distance_km)]), 0, lim)
        ELSE Slice(filtered_results, 0, lim)

\* The distance of each result from the centre.
Distances(results, center_longitude, center_latitude) ==
    [i \in 1..Len(results) |->
        calculate_distance_km(center_latitude, center_longitude,
                              results[i].entity.latitude, results[i].entity.longitude)]

LocationResults(results, center_longitude, center_latitude, radius_km, lim, sort_by_distance) ==
    DistanceFiltered(results, Distances(results, center_longitude, center_latitude),
                     radius_km, lim, sort_by_distance)

\* search_houses_by_location: the circle is put under the key location_circle
\* of a copy of additional_filters, search_houses is called with the larger
\* limit, and its results are filtered by exact distance, sorted when
\* sort_by_distance holds, and cut to limit.
search_houses_by_location(rows, center_longitude, center_latitude, radius_km, additional_filters, lim, sort_by_distance, flt) ==
    LocationResults(
        search_houses(rows,
            [additional_filters EXCEPT !.location_circle =
                [NoLocation EXCEPT !.center_longitude = Some(center_longitude),
                                   !.center_latitude = Some(center_latitude),
                                   !.radius_km = Some(radius_km)]],
            InitialLimit(lim), 0, flt).results,
        center_longitude, center_latitude, radius_km, lim, sort_by_distance)

\* ----------------------------------------------------------- the requests
Circle ==
    [NoLocation EXCEPT !.center_longitude = Some(11630500),
                       !.center_latitude = Some(3990500),
                       !.radius_km = Some(5000)]

Rectangle ==
    [NoLocation EXCEPT !.min_longitude = Some(11629000), !.max_longitude = Some(11634000),
                       !.min_latitude = Some(3989000), !.max_latitude = Some(3994000)]

Range2(lo, hi) == [min |-> lo, max |-> hi]

\* Requests that vary the retrieval mode, the query text and the location.
ModeRequests ==
    { [NoParams EXCEPT !.retrieval_type = rt, !.user_query_text = qt,
                       !.confidence = cf, !.location = loc] :
        rt \in {None, Some("vector"), Some("bm25"), Some("hybrid")},
        qt \in {Some("q")}, cf \in {None, Some(50)},
        loc \in {NoLocation, Circle, Rectangle} }
    \cup
    { [NoParams EXCEPT !.retrieval_type = rt, !.location = loc] :
        rt \in {None, Some("vector"), Some("bm25"), Some("hybrid")},
        loc \in {NoLocation, Circle, Rectangle} }

\* Requests that vary the range filters (no query text).
FilterRequests ==
    { [NoParams EXCEPT !.area_range = Range2(lo, hi), !.region = rg] :
        lo \in {None, Some(100), Some(121), Some(150)},
        hi \in {None, Some(100), Some(150)}, rg \in {None} }
    \cup
    { [NoParams EXCEPT !.unit_price_range = Range2(lo, hi)] :
        lo \in {None, Some(45), Some(60)}, hi \in {None, Some(35), Some(60)} }
    \cup
    { [NoParams EXCEPT !.total_price_range = Range2(lo, hi)] :
        lo \in {None, Some(300), Some(450)}, hi \in {None, Some(300), Some(450)} }
    \cup
    { [NoParams EXCEPT !.region = Some("X"), !.area_range = Range2(lo, hi)] :
        lo \in {None, Some(100)}, hi \in {None, Some(150)} }

\* Requests that vary the multi-value fields category and name, with query
\* text (vector search) and without it (pure filter on the area).
ListRequests ==
    { [b EXCEPT !.category = c, !.name = n] :
        b \in { [NoParams EXCEPT !.user_query_text = Some("q")],
                [NoParams EXCEPT !.area_range = Range2(None, Some(150))] },
        c \in { None, Some(ListOf(<<>>)), Some(ListOf(<<1, 2>>)), Some(Scalar(1)),
                Some(NonNumeric) },
        n \in { None, Some(ListOf(<<>>)), Some(ListOf(<<"N1">>)), Some(Scalar("N2")) } }

Weights(v, b, d, sp) == [vector |-> v, bm25 |-> b, dense |-> d, sparse |-> sp]

\* Hybrid requests that carry hybrid_weights.
WeightRequests ==
    { [NoParams EXCEPT !.retrieval_type = Some("hybrid"), !.user_query_text = Some("q"),
                       !.hybrid_weights = w] :
        w \in { Weights(Some(9), Some(1), None, None),
                Weights(None, None, Some(9), Some(1)),
                Weights(Some(9), None, None, None) } }

\* Requests whose retrieval_type is spelt another way, and a blank query text.
SpellingRequests ==
    { [NoParams EXCEPT !.retrieval_type = Some(rt), !.user_query_text = Some("q"),
                       !.region = rg] :
        rt \in {"lexical", "BM25"}, rg \in {None, Some("X")} }
    \cup
    { [NoParams EXCEPT !.user_query_text = Some(" ")] }

\* Requests that carry an address, alone, with a region and with query text.
AddressRequests ==
    { [NoParams EXCEPT !.address = Some(a), !.region = rg, !.user_query_text = qt] :
        a \in {"Road", "Road 1"}, rg \in {None, Some("X")}, qt \in {None, Some("q")} }

\* Requests that carry preferences_tags, with and without a region.
TagRequests ==
    { [NoParams EXCEPT !.preferences_tags = Some(tg), !.region = rg] :
        tg \in {"school", "garden"}, rg \in {None, Some("X"), Some("Y")} }

\* Requests whose query text is the empty string, under either key.
EmptyTextRequests ==
    { [NoParams EXCEPT !.user_query_text = uq, !.semantic_str = ss, !.region = rg] :
        uq \in {None, Some("")}, ss \in {None, Some(""), Some("q")},
        rg \in {None, Some("X")} }

\* The requests that are made for every page; the others ask for the first.
PagedRequests == ModeRequests \cup FilterRequests

Offsets(p) == IF p \in PagedRequests THEN 0..MaxOffset ELSE {0}

Requests ==
    ModeRequests \cup FilterRequests \cup ListRequests \cup WeightRequests
        \cup SpellingRequests \cup AddressRequests \cup TagRequests
        \cup EmptyTextRequests

\* What can fail during a search: the construction of the weighted ranker, the
\* hybrid_search call alone, every call to the storage engine, the
\* initialisation of the embedding model, the encoding of the query text.
Faults(p) ==
    IF FilterRaises(p) THEN {"none"}
    ELSE IF HasQueryText(p) /\ RetrievalType(p) = "hybrid"
    THEN {"none", "ranker", "hybrid_call", "engine", "no_model", "encode"}
    ELSE IF HasQueryText(p) /\ RetrievalType(p) = "vector"
    THEN {"none", "engine", "no_model", "encode"}
    ELSE IF (HasQueryText(p) /\ RetrievalType(p) = "bm25")
              \/ build_filter_expression(p) # <<>>
         THEN {"none", "engine"}
         ELSE {"none"}

\* The house_data a caller passes to insert_house_data: the listing, with or
\* without vectors of the caller's own under the keys of the derived vectors.
CallerVector == [dim |-> VECTOR_DIM, kind |-> "caller", text |-> <<>>]

HouseData(h, supplied) ==
    LET listing == [k \in ProcessedFields |-> h[k]]
    IN  IF supplied
        THEN listing @@ [semantic_vector |-> CallerVector, sparse_vector |-> CallerVector]
        ELSE listing

HouseIds == {c.id : c \in Catalogue}

\* The additional_filters of search_houses_by_location.
LocationFilters ==
    { NoParams, [NoParams EXCEPT !.region = Some("X")],
      [NoParams EXCEPT !.region = Some("Y")],
      [NoParams EXCEPT !.user_query_text = Some("q")] }

\* The filter_params, semantic_query and semantic_weight (in tenths) of
\* hybrid_search.
FilterParams ==
    { NoParams, [NoParams EXCEPT !.region = Some("X")],
      [NoParams EXCEPT !.area_range = Range2(None, Some(150))],
      [NoParams EXCEPT !.location = Rectangle] }

SemanticQueries == {"q", ""}

SemanticWeights == {3, 7}

\* The listings whose fields update_house_data is given as updated_data.
UpdatedListings == {c \in Catalogue : c.id = "\"A\""}

\* The request bodies of POST /search that vary category and name.
EndpointRequests ==
    {p \in ListRequests : p.category # Some(NonNumeric) /\ HasQueryText(p)}

StoredIds(rows) == {rows[i].id : i \in 1..Len(rows)}

\* The threads that serve the first requests concurrently.
Threads == 1..MaxThreads

\* ------------------------------------------------------------ the actions
Init ==
    /\ store = <<>>
    /\ pc = "idle"
    /\ req = NoParams
    /\ limit = 1
    /\ offset = 0
    /\ fault = "none"
    /\ result = <<>>
    /\ calls = <<>>
    /\ embedding = None
    /\ payload = None
    /\ target = ""
    /\ ok = FALSE
    /\ detail = None
    /\ deleted = {}
    /\ before = <<>>
    /\ extra = None
    /\ client = None
    /\ utils = None
    /\ made = [client |-> 0, utils |-> 0]
    /\ tpc = [t \in Threads |-> "start"]
    /\ seen = [t \in Threads |-> FALSE]
    /\ held = [t \in Threads |-> [client |-> None, utils |-> None]]

\* One call of insert_house_data(house_data) with a single dict.
Insert ==
    /\ pc = "idle"
    /\ Len(store) < MaxStore
    /\ \E h \in Catalogue, supplied \in BOOLEAN,
          f \in {"none", "no_model", "encode", "engine"} :
            LET out == insert_house_data(store, HouseData(h, supplied), f)
            IN  /\ store' = out.rows
                /\ ok' = out.ok
                /\ embedding' = out.vector
                /\ payload' = Some(HouseData(h, supplied))
                /\ fault' = f
                /\ deleted' = IF out.ok THEN deleted \ {h.id} ELSE deleted
    /\ pc' = "inserted"
    /\ UNCHANGED svars
    /\ UNCHANGED <<req, limit, offset, result, calls, target, detail, before, extra>>

\* What is recorded of a search_houses call that gave `out`.
Searched(out) ==
    /\ result' = out.results
    /\ calls' = out.calls
    /\ embedding' = out.vector
    /\ extra' = Some([post |-> out.post, candidates |-> out.candidates,
                      raised |-> out.raised])

\* One call of search_houses(search_params, limit, offset).
Search ==
    /\ pc = "idle"
    /\ \E p \in Requests, l \in 1..MaxLimit :
         \E o \in Offsets(p), f \in Faults(p) :
            /\ req' = p
            /\ limit' = l
            /\ offset' = o
            /\ fault' = f
            /\ Searched(search_houses(store, p, l, o, f))
    /\ pc' = "returned"
    /\ UNCHANGED svars
    /\ UNCHANGED <<store, payload, target, ok, detail, deleted, before>>

\* One request POST /search; result is the `houses` list of the response.
SearchEndpoint ==
    /\ pc = "idle"
    /\ \E p \in EndpointRequests, l \in 1..MaxLimit, o \in 0..MaxOffset :
         \E f \in Faults(EndpointParams(p)) :
            /\ req' = p
            /\ limit' = l
            /\ offset' = o
            /\ fault' = f
            /\ result' = search_endpoint(store, p, l, o, f)
    /\ pc' = "answered"
    /\ UNCHANGED svars
    /\ UNCHANGED <<store, calls, embedding, payload, target, ok, detail, deleted, before, extra>>

\* One call of search_houses_by_location(center, radius_km, additional_filters,
\* limit, sort_by_distance) for the circle of the model.
SearchByLocation ==
    /\ pc = "idle"
    /\ \E p \in LocationFilters, l \in 1..MaxLimit, s \in BOOLEAN :
         \E f \in Faults(p) :
            /\ req' = p
            /\ limit' = l
            /\ fault' = f
            /\ extra' = Some([sort_by_distance |-> s])
            /\ result' = search_houses_by_location(store,
                            Val(Circle.center_longitude), Val(Circle.center_latitude),
                            Val(Circle.radius_km), p, l, s, f)
    /\ pc' = "located"
    /\ UNCHANGED svars
    /\ UNCHANGED <<store, offset, calls, embedding, payload, target, ok, detail,
                   deleted, before>>

\* What is recorded of a hybrid_search call that gave `out`.
HybridSearched(out) ==
    /\ result' = out.results
    /\ calls' = out.calls
    /\ embedding' = out.vector

\* One call of hybrid_search(semantic_query, filter_params, semantic_weight, limit).
HybridSearch ==
    /\ pc = "idle"
    /\ \E p \in FilterParams, q \in SemanticQueries, w \in SemanticWeights,
          l \in 1..MaxLimit :
         \E f \in Faults([p EXCEPT !.user_query_text = Some(q)]) :
            /\ req' = p
            /\ limit' = l
            /\ fault' = f
            /\ extra' = Some([semantic_query |-> q, semantic_weight |-> w])
            /\ HybridSearched(hybrid_search(store, q, p, w, l, f))
    /\ pc' = "hybrid"
    /\ UNCHANGED svars
    /\ UNCHANGED <<store, offset, payload, target, ok, detail, deleted, before>>

\* One call of delete_house(house_id).
Delete ==
    /\ pc = "idle"
    /\ \E id \in HouseIds, f \in {"none", "engine"} :
            LET out == delete_house(store, id, f)
            IN  /\ store' = out.rows
                /\ ok' = out.ok
                /\ target' = id
                /\ fault' = f
                /\ deleted' = IF out.ok /\ id \in StoredIds(store)
                              THEN deleted \cup {id} ELSE deleted
    /\ before' = store
    /\ pc' = "deleted"
    /\ UNCHANGED svars
    /\ UNCHANGED <<req, limit, offset, result, calls, embedding, payload, detail, extra>>

\* One call of update_house_data(house_id, updated_data).
Update ==
    /\ pc = "idle"
    /\ \E id \in HouseIds, h \in UpdatedListings,
          f \in {"none", "engine_delete", "engine_insert"} :
            LET out == update_house_data(store, id, HouseData(h, FALSE), f)
            IN  /\ Len(out.rows) <= MaxStore
                /\ store' = out.rows
                /\ ok' = out.ok
                /\ target' = id
                /\ payload' = Some([HouseData(h, FALSE) EXCEPT !.id = id])
                /\ fault' = f
                /\ deleted' = IF out.ok THEN deleted \ {id}
                              ELSE IF out.rows # store /\ id \in StoredIds(store)
                                   THEN deleted \cup {id} ELSE deleted
    /\ before' = store
    /\ pc' = "updated"
    /\ UNCHANGED svars
    /\ UNCHANGED <<req, limit, offset, result, calls, embedding, detail, extra>>

\* One call of get_house_by_id(house_id).
GetById ==
    /\ pc = "idle"
    /\ \E id \in HouseIds, f \in {"none", "engine"} :
            /\ detail' = get_house_by_id(store, id, f)
            /\ target' = id
            /\ fault' = f
    /\ pc' = "got"
    /\ UNCHANGED svars
    /\ UNCHANGED <<store, req, limit, offset, result, calls, embedding, payload, ok,
                   deleted, before, extra>>

\* The caller takes the result; the call's record is discarded.
Return ==
    /\ pc # "idle"
    /\ pc' = "idle"
    /\ req' = NoParams
    /\ limit' = 1
    /\ offset' = 0
    /\ fault' = "none"
    /\ result' = <<>>
    /\ calls' = <<>>
    /\ embedding' = None
    /\ payload' = None
    /\ target' = ""
    /\ ok' = FALSE
    /\ detail' = None
    /\ before' = <<>>
    /\ extra' = None
    /\ UNCHANGED svars
    /\ UNCHANGED <<store, deleted>>

Next ==
    Insert \/ Search \/ SearchEndpoint \/ SearchByLocation \/ HybridSearch \/ Delete \/ Update \/ GetById \/ Return

Spec == Init /\ [][Next]_vars

\* ------------------------------------------------- the singletons, threaded
\* Each thread serves one request: get_house_reco_service() calls
\* get_default_milvus_client(), i.e. default_milvus_config.get_client(), and
\* then HouseRecoService.__init__ calls get_vectorization_utils().  Neither
\* getter takes a lock; the test, the construction with the assignment, and
\* the read of the return statement are separate steps of a thread.

\* get_client: `if self._client is None:`
ClientCheck ==
    /\ \E t \in Threads :
          /\ tpc[t] = "start"
          /\ seen' = [seen EXCEPT ![t] = IsNone(client)]
          /\ tpc' = [tpc EXCEPT ![t] = "client_checked"]
    /\ UNCHANGED <<client, utils, made, held>>
    /\ UNCHANGED mvars

\* get_client: `self._client = MilvusClient(...)`, if the test was true
ClientCreate ==
    /\ \E t \in Threads :
          /\ tpc[t] = "client_checked"
          /\ seen[t]
          /\ made' = [made EXCEPT !.client = @ + 1]
          /\ client' = Some(made.client + 1)
          /\ tpc' = [tpc EXCEPT ![t] = "client_assigned"]
    /\ UNCHANGED <<utils, seen, held>>
    /\ UNCHANGED mvars

\* get_client: `return self._client`
ClientReturn ==
    /\ \E t \in Threads :
          /\ tpc[t] = "client_assigned" \/ (tpc[t] = "client_checked" /\ ~seen[t])
          /\ held' = [held EXCEPT ![t].client = client]
          /\ tpc' = [tpc EXCEPT ![t] = "client_returned"]
    /\ UNCHANGED <<client, utils, made, seen>>
    /\ UNCHANGED mvars

\* get_vectorization_utils: `if _vectorization_utils is None:`
UtilsCheck ==
    /\ \E t \in Threads :
          /\ tpc[t] = "client_returned"
          /\ seen' = [seen EXCEPT ![t] = IsNone(utils)]
          /\ tpc' = [tpc EXCEPT ![t] = "utils_checked"]
    /\ UNCHANGED <<client, utils, made, held>>
    /\ UNCHANGED mvars

\* get_vectorization_utils: `_vectorization_utils = VectorizationUtils()`
UtilsCreate ==
    /\ \E t \in Threads :
          /\ tpc[t] = "utils_checked"
          /\ seen[t]
          /\ made' = [made EXCEPT !.utils = @ + 1]
          /\ utils' = Some(made.utils + 1)
          /\ tpc' = [tpc EXCEPT ![t] = "utils_assigned"]
    /\ UNCHANGED <<client, seen, held>>
    /\ UNCHANGED mvars

\* get_vectorization_utils: `return _vectorization_utils`
UtilsReturn ==
    /\ \E t \in Threads :
          /\ tpc[t] = "utils_assigned" \/ (tpc[t] = "utils_checked" /\ ~seen[t])
          /\ held' = [held EXCEPT ![t].utils = utils]
          /\ tpc' = [tpc EXCEPT ![t] = "done"]
    /\ UNCHANGED <<client, utils, made, seen>>
    /\ UNCHANGED mvars

SingletonNext ==
    ClientCheck \/ ClientCreate \/ ClientReturn \/ UtilsCheck \/ UtilsCreate \/ UtilsReturn

SingletonSpec == Init /\ [][SingletonNext]_vars


\* ------------------------------------------------------------- the claims
IsCircleRequest(p) == HasLocation(p) /\ is_circle_search(p.location)

Ids(houses) == {houses[i].entity.id : i \in 1..Len(houses)}

IdSeq(houses) == [i \in 1..Len(houses) |-> houses[i].entity.id]

RowIds(rows) == [i \in 1..Len(rows) |-> rows[i].id]

\* The distance in millimetres of a returned house from the centre of the circle.
ExactDistance(p, house) ==
    calculate_distance_km(Val(p.location.center_latitude), Val(p.location.center_longitude),
                          house.entity.latitude, house.entity.longitude)

\* C1: whatever the retrieval type, the query text, the location filter and
\* the outcome of the storage calls, search_houses returns at most `limit`
\* listings (limit >= 1, offset >= 0).
Thm_C1_AtMostLimit == pc = "returned" => Len(result) <= limit

\* A scored search with an offset that over-fetched more rows than `limit`
\* and returned a full page.
Wit_C1_FullPageAfterOffset ==
    /\ pc = "returned"
    /\ HasQueryText(req)
    /\ offset >= 1
    /\ Len(store) > limit
    /\ Len(result) = limit

Thm_C5_DistanceNonDecreasing ==
    (pc = "returned" /\ IsCircleRequest(req)) =>
        \A i, j \in 1..Len(result) :
            i < j => Val(result[i].distance_km) <= Val(result[j].distance_km)

\* Two listings came back nearest first although the farther one has the
\* higher similarity score.
Wit_C5_DistanceBeatsScore ==
    /\ pc = "returned"
    /\ IsCircleRequest(req)
    /\ Len(result) = 2
    /\ ~IsNone(result[1].similarity_score)
    /\ Val(result[1].similarity_score) < Val(result[2].similarity_score)
    /\ Val(result[1].distance_km) < Val(result[2].distance_km)

\* C6: for a scored query (vector, lexical (bm25) or hybrid, with query text)
\* without a circular location, every returned listing has a similarity_score
\* and the scores are non-increasing along the list.
Thm_C6_ScoreNonIncreasing ==
    (/\ pc = "returned"
     /\ HasQueryText(req)
     /\ RetrievalType(req) \in {"vector", "bm25", "hybrid"}
     /\ ~IsCircleRequest(req)) =>
        /\ \A i \in 1..Len(result) : ~IsNone(result[i].similarity_score)
        /\ \A i, j \in 1..Len(result) :
              i < j => Val(result[i].similarity_score) >= Val(result[j].similarity_score)

\* A scored, non-circular search returned two listings with different scores.
Wit_C6_TwoScores ==
    /\ pc = "returned"
    /\ HasQueryText(req)
    /\ ~IsCircleRequest(req)
    /\ Len(result) = 2
    /\ Val(result[1].similarity_score) > Val(result[2].similarity_score)


\* C2: in hybrid mode with query text, whenever the hybrid path throws (the
\* fusion call, or the construction of the fusion primitive), search_houses
\* runs the dense vector search with the same filter and limit + offset and
\* returns exactly what the vector mode returns for the same request.
Cex_C2_HybridFallback ==
    (/\ pc = "returned"
     /\ HasQueryText(req)
     /\ RetrievalType(req) = "hybrid"
     /\ fault \in {"ranker", "hybrid_call"}) =>
        LET vector == search_houses(store, [req EXCEPT !.retrieval_type = Some("vector")],
                                    limit, offset, "none")
        IN  result = vector.results

\* C3: a request with no filter field and no query text returns the stored
\* listings in storage order, cut by limit / offset.
Cex_C3_NullFilterMatchesAll ==
    (/\ pc = "returned"
     /\ fault = "none"
     /\ ~HasQueryText(req)
     /\ build_filter_expression(req) = <<>>) =>
        IdSeq(result) = Slice(RowIds(store), offset, offset + limit)

\* The listings of the store that match the filter and lie inside the circle,
\* nearest first.
InRadiusByDistance(rows, p) ==
    apply_circle_distance_filter(
        [i \in 1..Len(rows) |-> House(rows[i], None, None)],
        p.location, Len(rows))

\* C7: for a circular query without query text, offset and limit are applied
\* last: the result is positions offset .. offset+limit-1 of the distance-sorted
\* list of the listings inside the radius.
Cex_C7_PageOfDistanceOrder ==
    (/\ pc = "returned"
     /\ fault = "none"
     /\ ~HasQueryText(req)
     /\ IsCircleRequest(req)) =>
        IdSeq(result) = IdSeq(Slice(InRadiusByDistance(store, req), offset, offset + limit))

UniqueIds(rows) == \A i, j \in 1..Len(rows) : rows[i].id = rows[j].id => i = j

\* No two stored rows share a dense, a sparse or a fused score.
NoRankingTies(rows) ==
    LET dw == DenseWeight(req.hybrid_weights)
        sw == SparseWeight(req.hybrid_weights)
    IN  \A i, j \in 1..Len(rows) :
          i # j => /\ rows[i].dense # rows[j].dense
                   /\ rows[i].sparse # rows[j].sparse
                   /\ dw * rows[i].dense + sw * rows[i].sparse
                        # dw * rows[j].dense + sw * rows[j].sparse

\* C8: on a stable dataset without ranking ties the pages (limit L, offset 0)
\* and (limit L, offset L) have disjoint id sets whose union is the id set of
\* (limit 2L, offset 0), in every mode.
Cex_C8_PagesPartition ==
    (/\ pc = "returned"
     /\ fault = "none"
     /\ offset = 0
     /\ UniqueIds(store)
     /\ NoRankingTies(store)) =>
        LET second == search_houses(store, req, limit, limit, "none").results
            both == search_houses(store, req, 2 * limit, 0, "none").results
        IN  /\ Ids(result) \cap Ids(second) = {}
            /\ Ids(result) \cup Ids(second) = Ids(both)


\* The closed intervals [lo, hi] and the query interval q (an absent bound is
\* open) have a point in common.
Intersects(lo, hi, q) ==
    \E x \in lo..hi : /\ IsNone(q.min) \/ x >= Val(q.min)
                      /\ IsNone(q.max) \/ x <= Val(q.max)

\* `listing.max >= query.min AND listing.min <= query.max`, each half only if
\* its bound is present.
Overlaps(lo, hi, q) ==
    /\ IsNone(q.min) \/ hi >= Val(q.min)
    /\ IsNone(q.max) \/ lo <= Val(q.max)

Inverted(q) == ~IsNone(q.min) /\ ~IsNone(q.max) /\ Val(q.min) > Val(q.max)

HasRangeFilter(p) ==
    \E q \in {p.area_range, p.unit_price_range, p.total_price_range} : q # NoRange

HasInvertedRange(p) ==
    \E q \in {p.area_range, p.unit_price_range, p.total_price_range} : Inverted(q)

RegionOk(row, p) == IsNone(p.region) \/ row.region = Val(p.region)

RowOverlaps(row, p) ==
    /\ Overlaps(row.min_area, row.max_area, p.area_range)
    /\ Overlaps(row.min_unit_price, row.max_unit_price, p.unit_price_range)
    /\ Overlaps(row.min_total_price, row.max_total_price, p.total_price_range)

RowIntersects(row, p) ==
    /\ Intersects(row.min_area, row.max_area, p.area_range)
    /\ Intersects(row.min_unit_price, row.max_unit_price, p.unit_price_range)
    /\ Intersects(row.min_total_price, row.max_total_price, p.total_price_range)

Entities(houses) == [i \in 1..Len(houses) |-> houses[i].entity]

\* The stored rows as a search returns them.
Visible(rows) ==
    [i \in 1..Len(rows) |-> serialize_house_data(Entity(rows[i], get_safe_output_fields))]

\* A pure filter request whose only constraints are range filters and region.
IsRangeRequest(p) ==
    /\ HasRangeFilter(p) /\ ~HasQueryText(p) /\ ~HasLocation(p)
    /\ IsNone(p.category) /\ IsNone(p.name)

\* C9: a range filter on area, unit price or total price compiles to
\* `listing.max >= query.min AND listing.min <= query.max`, each half only if
\* its bound is present, so the search returns the page of the stored listings
\* that satisfy it; when the query interval is an interval (min <= max) these
\* are exactly the listings whose stored [min, max] intersects it.
Thm_C9_RangeOverlap ==
    (pc = "returned" /\ fault = "none" /\ IsRangeRequest(req)) =>
        /\ Entities(result) =
              Slice(SelectIdx(Visible(store), {i \in 1..Len(store) :
                        RegionOk(store[i], req) /\ RowOverlaps(store[i], req)}, 1),
                    offset, offset + limit)
        /\ ~HasInvertedRange(req) =>
              Entities(result) =
                 Slice(SelectIdx(Visible(store), {i \in 1..Len(store) :
                           RegionOk(store[i], req) /\ RowIntersects(store[i], req)}, 1),
                       offset, offset + limit)

\* The listing with area [80, 120] is stored first, the filter is
\* {min_area: 121, max_area: 150}, and the first page skips it for a later row.
Wit_C9_AreaExample ==
    /\ pc = "returned"
    /\ fault = "none"
    /\ req.area_range = Range2(Some(121), Some(150))
    /\ offset = 0
    /\ Len(store) >= 2
    /\ store[1].id = "A"
    /\ Len(result) >= 1
    /\ "A" \notin Ids(result)

\* C10: for a range filter with min > max the compiler does not reject the
\* request and the compiled predicate matches no listing.
Cex_C10_InvertedMatchesNothing ==
    (pc = "returned" /\ fault = "none" /\ IsRangeRequest(req) /\ HasInvertedRange(req)) =>
        result = <<>>

\* The stored interval [lo, hi] contains both bounds of the inverted range q.
Covers(lo, hi, q) == lo <= Val(q.max) /\ Val(q.min) <= hi

CoversOrOverlaps(lo, hi, q) ==
    IF Inverted(q) THEN Covers(lo, hi, q) ELSE Overlaps(lo, hi, q)

RowCovers(row, p) ==
    /\ CoversOrOverlaps(row.min_area, row.max_area, p.area_range)
    /\ CoversOrOverlaps(row.min_unit_price, row.max_unit_price, p.unit_price_range)
    /\ CoversOrOverlaps(row.min_total_price, row.max_total_price, p.total_price_range)

\* C10 as amended: an inverted range is not rejected (the compiled predicate is
\* sent to the storage query), and it matches exactly the listings whose stored
\* interval contains both query bounds: the result is the page of those
\* listings, and every other listing is left out.
Thm_C10_InvertedMatchesCovering ==
    (pc = "returned" /\ fault = "none" /\ IsRangeRequest(req) /\ HasInvertedRange(req)) =>
        /\ calls = <<Call("query", "", build_filter_expression(req), limit, offset)>>
        /\ Entities(result) =
              Slice(SelectIdx(Visible(store), {i \in 1..Len(store) :
                        RegionOk(store[i], req) /\ RowCovers(store[i], req)}, 1),
                    offset, offset + limit)

\* An inverted area range returned the listing whose area interval contains
\* both bounds and left out a stored listing whose interval does not.
Wit_C10_CoveringReturned ==
    /\ pc = "returned"
    /\ fault = "none"
    /\ IsRangeRequest(req)
    /\ Inverted(req.area_range)
    /\ Len(result) >= 1
    /\ \E i \in 1..Len(store) : ~RowCovers(store[i], req)


EmptyList == ListOf(<<>>)

HasEmptyList(p) == p.category = Some(EmptyList) \/ p.name = Some(EmptyList)

\* The request with its empty-list fields removed.
WithoutEmptyLists(p) ==
    [p EXCEPT !.category = IF @ = Some(EmptyList) THEN None ELSE @,
              !.name = IF @ = Some(EmptyList) THEN None ELSE @]

\* C11: an empty list for category or name compiles to the predicate of the
\* request without that field, and search_houses returns what it returns for
\* the request without that field.
Thm_C11_EmptyListIsAbsent ==
    (pc = "returned" /\ HasEmptyList(req)) =>
        /\ build_filter_expression(req) = build_filter_expression(WithoutEmptyLists(req))
        /\ result = search_houses(store, WithoutEmptyLists(req), limit, offset, fault).results

\* A search with `name: []` returned a listing.
Wit_C11_EmptyNameReturnsRows ==
    /\ pc = "returned"
    /\ req.name = Some(EmptyList)
    /\ IsNone(req.category)
    /\ ~HasQueryText(req)
    /\ Len(result) >= 1

MalformedCategory(p) == ~IsNone(p.category) /\ ~Val(p.category).numeric

\* C12: a malformed filter value (here a non-numeric category) does not make
\* the compiler raise, and the search returns what it returns for the request
\* without that field.
Cex_C12_MalformedFieldSkipped ==
    (pc = "returned" /\ fault = "none" /\ MalformedCategory(req)) =>
        /\ ~FilterRaises(req)
        /\ result = search_houses(store, [req EXCEPT !.category = None],
                                  limit, offset, "none").results

\* C13: a search during which the storage engine or the Vectorizer failed
\* (the recovered hybrid_search failure apart) gives the caller a failure
\* outcome, different from the outcome of a successful search with no result.
Cex_C13_FailureIsDistinguishable ==
    (pc = "returned" /\ fault \in {"engine", "no_model", "encode"}) =>
        /\ ~HouseResponse(result).success
        /\ HouseResponse(result) # HouseResponse(<<>>)

\* C14: a listing inserted with a non-empty semantic_str, the embedding model
\* working, is stored with the embedding of that text.
Cex_C14_VectorOfSemanticStr ==
    (pc = "inserted" /\ ok /\ fault = "none" /\ Val(payload).semantic_str # "") =>
        store[Len(store)].semantic_vector = encode_queries(<<Val(payload).semantic_str>>)

\* C15: the vectors a caller supplies on insert are not stored (the stored
\* semantic_vector is the one the Vectorizer made during the call, the stored
\* sparse_vector the engine's), and no record search_houses or get_house_by_id
\* returns has the key semantic_vector or sparse_vector.
Thm_C15_VectorsWriteOnly ==
    /\ (pc = "inserted" /\ ok) =>
          /\ store[Len(store)].semantic_vector = Val(embedding)
          /\ store[Len(store)].semantic_vector.kind # "caller"
          /\ store[Len(store)].sparse_vector.kind # "caller"
    /\ pc = "returned" =>
          \A i \in 1..Len(result) : (DOMAIN result[i].entity) \cap VectorFields = {}
    /\ (pc = "got" /\ ~IsNone(detail)) =>
          (DOMAIN Val(detail)) \cap VectorFields = {}

\* get_house_by_id returned the record of a stored row that carries both vectors.
Wit_C15_DetailOfStoredRow ==
    /\ pc = "got"
    /\ ~IsNone(detail)
    /\ \E i \in 1..Len(store) :
          /\ store[i].id = Val(detail).id
          /\ VectorFields \subseteq DOMAIN store[i]

VectorizerCalled == \E i \in 1..Len(calls) : calls[i].op = "create_query_vector"

IsHybridSearch(p) ==
    /\ ~IsNone(p.retrieval_type) /\ Val(p.retrieval_type) = "hybrid"
    /\ HasQueryText(p)

WeightOr(w) == IF IsNone(w) THEN 5 ELSE Val(w)

\* C17: in hybrid mode the ranker's weights are the caller's hybrid_weights
\* {dense, sparse}, each 0.5 only if the caller did not give it.
Cex_C17_WeightsDenseSparse ==
    (pc = "returned" /\ IsHybridSearch(req) /\ fault = "none") =>
        calls[2].weights = <<WeightOr(req.hybrid_weights.dense),
                             WeightOr(req.hybrid_weights.sparse)>>

\* C17 as amended: the weights are read under the keys vector and bm25: the
\* dense sub-search gets hybrid_weights.vector and the sparse one
\* hybrid_weights.bm25, each 0.5 only if the caller did not give that key.
Thm_C17_WeightsVectorBm25 ==
    (pc = "returned" /\ IsHybridSearch(req) /\ fault = "none") =>
        /\ calls[2].op = "hybrid_search"
        /\ calls[2].weights = <<WeightOr(req.hybrid_weights.vector),
                                WeightOr(req.hybrid_weights.bm25)>>

\* A hybrid search with {vector: 0.9, bm25: 0.1} ranked two listings in another
\* order than the default weights rank them.
Wit_C17_WeightsChangeOrder ==
    /\ pc = "returned"
    /\ IsHybridSearch(req)
    /\ fault = "none"
    /\ req.hybrid_weights = Weights(Some(9), Some(1), None, None)
    /\ Len(result) = 2
    /\ IdSeq(result) # IdSeq(search_houses(store, [req EXCEPT !.hybrid_weights = NoWeights],
                                           limit, offset, "none").results)

\* The one call made is the sparse search with the compiled filter.
SparseSearchOnly ==
    /\ calls = <<Call("search", "sparse_vector", build_filter_expression(req),
                      limit + offset, 0)>>
    /\ IsNone(embedding)

\* The first call is the Vectorizer's and every other call is a storage search.
VectorizerFirst ==
    /\ Len(calls) >= 1
    /\ calls[1].op = "create_query_vector"
    /\ \A i \in 2..Len(calls) : calls[i].op \in {"search", "hybrid_search"}

TypeIs(p, names) == ~IsNone(p.retrieval_type) /\ Val(p.retrieval_type) \in names

\* C18: with retrieval_type = lexical and query text, search_houses issues the
\* sparse search with the compiled filter and does not call the Vectorizer;
\* with vector or hybrid the Vectorizer returns before any storage search.
Cex_C18_LexicalIsSparseSearch ==
    (pc = "returned" /\ HasQueryText(req) /\ ~FilterRaises(req)) =>
        /\ TypeIs(req, {"lexical"}) => SparseSearchOnly
        /\ (IsNone(req.retrieval_type) \/ TypeIs(req, {"vector", "hybrid"})) =>
              VectorizerFirst

\* C18 as amended: the retrieval type of the sparse search is bm25, in any
\* letter case.
Thm_C18_Bm25IsSparseSearch ==
    (pc = "returned" /\ HasQueryText(req) /\ ~FilterRaises(req)) =>
        /\ TypeIs(req, {"bm25", "BM25"}) => SparseSearchOnly
        /\ (IsNone(req.retrieval_type) \/ TypeIs(req, {"vector", "hybrid"})) =>
              VectorizerFirst

\* A request spelt BM25 ran the sparse search and returned a listing.
Wit_C18_UpperCaseBm25 ==
    /\ pc = "returned"
    /\ TypeIs(req, {"BM25"})
    /\ SparseSearchOnly
    /\ Len(result) >= 1

\* C19: every stored point within radius_km (haversine) of the centre of a
\* circle satisfies the bounding box compiled for that circle.
Cex_C19_BoxContainsCircle ==
    (pc = "returned" /\ IsCircleRequest(req)) =>
        \A i \in 1..Len(store) :
            calculate_distance_km(Val(req.location.center_latitude),
                                  Val(req.location.center_longitude),
                                  store[i].latitude, store[i].longitude)
                <= Val(req.location.radius_km) * 1000
            => EvalExpr(store[i], build_circle_filter(req.location))

Others(rows, id) == SelectIdx(rows, {i \in 1..Len(rows) : rows[i].id # id}, 1)

\* C20: once delete_house(id) has returned True for the id of a stored
\* listing, no search and no get_house_by_id returns a listing with that id
\* until it is inserted again, and the delete leaves every other row as it was.
Cex_C20_DeletedStaysAway ==
    /\ pc = "returned" => \A i \in 1..Len(result) : result[i].entity.id \notin deleted
    /\ (pc = "got" /\ ~IsNone(detail)) => Val(detail).id \notin deleted
    /\ (pc = "deleted" /\ ok /\ target \in StoredIds(before)) =>
          Others(store, target) = Others(before, target)

\* C21: after any sequence of inserts and deletes at most one stored listing
\* has any given id, and a search never returns two listings with the same id.
Cex_C21_IdUnique ==
    /\ UniqueIds(store)
    /\ pc = "returned" =>
          \A i, j \in 1..Len(result) :
              result[i].entity.id = result[j].entity.id => i = j

\* C22: the `houses` list of the response of POST /search has at most `limit`
\* entries, for a request with several categories as for any other.
Cex_C22_EndpointAtMostLimit == pc = "answered" => Len(result) <= limit

\* C23: when the request carries an address, every returned listing has an
\* address that contains it.
Cex_C23_AddressConstrains ==
    (pc = "returned" /\ ~IsNone(req.address)) =>
        \A i \in 1..Len(result) :
            Contains(result[i].entity.address, Val(req.address))

\* The stored rows that match the filters and lie within the circle of the model.
InCircle(rows, p) ==
    {i \in MatchIdx(rows, build_filter_expression(p)) :
        calculate_distance_km(Val(Circle.center_latitude), Val(Circle.center_longitude),
                              rows[i].latitude, rows[i].longitude)
            <= Val(Circle.radius_km) * 1000}

\* C24: search_houses_by_location returns the stored listings that match
\* additional_filters and lie within radius_km of the centre, up to limit, each
\* with distance_km, nearest first when sort_by_distance holds; so with no
\* additional filter and a stored listing inside the radius it returns a
\* listing.
Cex_C24_LocationSearchFinds ==
    (pc = "located" /\ fault = "none") =>
        /\ Len(result) = Min2(limit, Cardinality(InCircle(store, req)))
        /\ \A i \in 1..Len(result) :
              /\ ~IsNone(result[i].distance_km)
              /\ \E k \in InCircle(store, req) : store[k].id = result[i].entity.id
        /\ Val(extra).sort_by_distance =>
              \A i, j \in 1..Len(result) :
                  i < j => Val(result[i].distance_km) <= Val(result[j].distance_km)

\* The compiler took the circle branch for the location of the request.
TookCircleBranch(p) == HasLocation(p) /\ CircleKeysPresent(p.location)

\* C25: whenever the compiler took the circle branch for the location, the
\* returned list is the Geo Post-Processor's output for the candidates; for any
\* other request (a rectangle-only location among them) the post-processor is
\* not applied: the candidates are all returned, without distance_km, in score
\* order if they are scored and in the order of the candidates otherwise.
Thm_C25_PostProcessIffCircle ==
    (pc = "returned" /\ ~Val(extra).raised) =>
        /\ TookCircleBranch(req) =>
              /\ Val(extra).post = "circle"
              /\ result = apply_circle_distance_filter(Val(extra).candidates,
                                                       req.location, limit)
        /\ ~TookCircleBranch(req) =>
              /\ Val(extra).post # "circle"
              /\ \A i \in 1..Len(result) : IsNone(result[i].distance_km)
              /\ result = IF Val(extra).post = "score"
                          THEN SortByScore(Val(extra).candidates)
                          ELSE Val(extra).candidates

\* A circular search whose post-processor dropped a candidate, so that the
\* returned list differs from the candidates.
Wit_C25_CircleDropsCandidate ==
    /\ pc = "returned"
    /\ ~Val(extra).raised
    /\ TookCircleBranch(req)
    /\ Len(result) >= 1
    /\ Len(result) < Len(Val(extra).candidates)

\* The constraint of each filter field, for a listing.
CategoryOk(row, p) ==
    \/ IsNone(p.category)
    \/ Val(p.category).items = <<>>
    \/ \E k \in 1..Len(Val(p.category).items) : row.category = Val(p.category).items[k]

NameOk(row, p) ==
    \/ IsNone(p.name)
    \/ Val(p.name).items = <<>>
    \/ \E k \in 1..Len(Val(p.name).items) : row.name = Val(p.name).items[k]

TagsOk(row, p) ==
    IsNone(p.preferences_tags) \/ Contains(row.preferences_tags, Val(p.preferences_tags))

Between(x, lo, hi) == (IsNone(lo) \/ x >= Val(lo)) /\ (IsNone(hi) \/ x <= Val(hi))

\* The box of the location: the rectangle given, or the bounding box of the circle.
BoxOk(row, p) ==
    IF TookCircleBranch(p) THEN EvalExpr(row, build_circle_filter(p.location))
    ELSE /\ Between(row.longitude, p.location.min_longitude, p.location.max_longitude)
         /\ Between(row.latitude, p.location.min_latitude, p.location.max_latitude)

\* The listing satisfies the constraint of every filter field that is present.
SatisfiesAll(row, p) ==
    /\ CategoryOk(row, p) /\ NameOk(row, p) /\ RegionOk(row, p) /\ TagsOk(row, p)
    /\ RowOverlaps(row, p) /\ BoxOk(row, p)

HybridParams == [req EXCEPT !.user_query_text = Some(Val(extra).semantic_query)]

WithId(rows, id) ==
    SelectIdx(Visible(rows), {i \in 1..Len(rows) : rows[i].id = id}, 1)

\* C28: when update_house_data(id, data) returns False the listing stored
\* under id is stored unchanged, and when it returns True exactly the new
\* listing is stored under id.
Cex_C28_UpdateAllOrNothing ==
    pc = "updated" =>
        /\ ~ok => WithId(store, target) = WithId(before, target)
        /\ ok => WithId(store, target) = <<Val(payload)>>

\* C29: under every interleaving of concurrent first calls each getter
\* constructs its instance at most once, and any two callers it has returned
\* to hold the same instance.
Cex_C29_SingletonsBuiltOnce ==
    /\ made.client <= 1
    /\ made.utils <= 1
    /\ \A t, u \in Threads :
          /\ (~IsNone(held[t].client) /\ ~IsNone(held[u].client)) =>
                held[t].client = held[u].client
          /\ (~IsNone(held[t].utils) /\ ~IsNone(held[u].utils)) =>
                held[t].utils = held[u].utils

NonEmpty(o) == ~IsNone(o) /\ Val(o) # ""

\* The request carries a non-empty query text under one of its two keys.
CarriesQueryText(p) == NonEmpty(p.user_query_text) \/ NonEmpty(p.semantic_str)

\* The ranked retrieval of each mode among the calls made.
RanRetrieval(mode) ==
    \E i \in 1..Len(calls) :
        CASE mode = "vector" -> calls[i].op = "search" /\ calls[i].anns_field = "semantic_vector"
          [] mode = "lexical" -> calls[i].op = "search" /\ calls[i].anns_field = "sparse_vector"
          [] mode = "hybrid" -> calls[i].op = "hybrid_search"

RanNoRetrieval ==
    \A i \in 1..Len(calls) : calls[i].op \notin {"search", "hybrid_search"}

\* C30: a request with non-empty query text runs the ranked retrieval of its
\* mode (vector when retrieval_type is absent, else the one of vector, lexical,
\* hybrid it names) and every returned listing has a similarity_score; a
\* request whose query text is absent or the empty string runs none.
Cex_C30_QueryTextIsRanked ==
    (pc = "returned" /\ fault = "none" /\ ~FilterRaises(req)) =>
        /\ (/\ CarriesQueryText(req)
            /\ IsNone(req.retrieval_type) \/ TypeIs(req, {"vector", "lexical", "hybrid"})) =>
              /\ RanRetrieval(IF IsNone(req.retrieval_type) THEN "vector"
                              ELSE Val(req.retrieval_type))
              /\ \A i \in 1..Len(result) : ~IsNone(result[i].similarity_score)
        /\ ~CarriesQueryText(req) => RanNoRetrieval

====
